---------------------------- MODULE Spec2Model ----------------------------
(* Model of the Terraform challenge grader (run.py).                        *)
(*                                                                          *)
(* A file's text is a sequence of atoms.  An atom is a literal fragment of  *)
(* text that the grader never looks inside: the newline, the blank, the     *)
(* comment marker '#', a filler word, and the fragments the marker strings  *)
(* are built from.  Every string operation of the code (split, strip,       *)
(* startswith, in, count) is computed on the atom sequence the way Python   *)
(* computes it on characters.                                               *)
EXTENDS Integers, Sequences, FiniteSets, TLC

(***************************************************************************)
(* Bounds of the model.                                                    *)
(***************************************************************************)
\* Longest generated text, in tokens (a token is one marker or one atom).
MaxLen == 5

(***************************************************************************)
(* Atoms and the string primitives of Python the grader uses.              *)
(***************************************************************************)
NL == "\n"
SP == " "
HASH == "#"
\* A word that contains no marker, no blank and no '#'.
FILLER == "x"

\* The sentinel load_tf_content returns for a missing file: a value that is
\* no text (no text holds the atom "None").
None == <<"None">>

\* str.strip() removes leading and trailing whitespace; a newline never
\* occurs inside a line produced by split('\n').
Whitespace == {SP}

RECURSIVE SplitFrom(_, _, _)
\* Lines of s[i..], cur being the line read so far.
SplitFrom(s, i, cur) ==
    IF i > Len(s) THEN <<cur>>
    ELSE IF s[i] = NL THEN <<cur>> \o SplitFrom(s, i + 1, <<>>)
    ELSE SplitFrom(s, i + 1, Append(cur, s[i]))

\* content.split('\n'): always at least one line, <<>> splits to << <<>> >>.
Split(s) == SplitFrom(s, 1, <<>>)

RECURSIVE LStrip(_)
LStrip(s) == IF s # <<>> /\ Head(s) \in Whitespace THEN LStrip(Tail(s)) ELSE s

RECURSIVE RStrip(_)
RStrip(s) ==
    IF s # <<>> /\ s[Len(s)] \in Whitespace
    THEN RStrip(SubSeq(s, 1, Len(s) - 1)) ELSE s

\* line.strip()
Strip(s) == RStrip(LStrip(s))

\* s.startswith(p)
StartsWith(s, p) == Len(s) >= Len(p) /\ SubSeq(s, 1, Len(p)) = p

\* s[i:].startswith(p), i counted from 1
MatchAt(s, p, i) ==
    i + Len(p) - 1 <= Len(s) /\ SubSeq(s, i, i + Len(p) - 1) = p

\* p in s
Contains(s, p) == \E i \in 1..(Len(s) + 1) : MatchAt(s, p, i)

RECURSIVE CountFrom(_, _, _)
\* Non-overlapping occurrences of p in s[i..], scanning left to right.
CountFrom(s, p, i) ==
    IF i + Len(p) - 1 > Len(s) THEN 0
    ELSE IF MatchAt(s, p, i) THEN 1 + CountFrom(s, p, i + Len(p))
    ELSE CountFrom(s, p, i + 1)

\* s.count(p), for a non-empty p
Count(s, p) == CountFrom(s, p, 1)

RECURSIVE Flatten(_)
\* The text a sequence of tokens spells.
Flatten(toks) == IF toks = <<>> THEN <<>> ELSE Head(toks) \o Flatten(Tail(toks))

(***************************************************************************)
(* is_commented_out                                                        *)
(***************************************************************************)
RECURSIVE CommentedNoStrip(_, _, _)
\* Mutant of CommentedFrom: the line is tested without strip().
CommentedNoStrip(lines, pattern, i) ==
    IF i > Len(lines) THEN TRUE
    ELSE LET line == lines[i]
         IN  IF line = <<>> \/ StartsWith(line, <<HASH>>)
             THEN CommentedNoStrip(lines, pattern, i + 1)
             ELSE IF Contains(line, pattern) THEN FALSE
             ELSE CommentedNoStrip(lines, pattern, i + 1)

RECURSIVE CommentedFrom(_, _, _)
\* The loop of is_commented_out over lines[i..]: a blank line or a line whose
\* stripped form starts with '#' is skipped; the first other line that
\* contains the pattern returns False; the end of the loop returns True.
CommentedFrom(lines, pattern, i) ==
    IF i > Len(lines) THEN TRUE
    ELSE LET line == lines[i]
             stripped == Strip(line)
         IN  IF stripped = <<>> \/ StartsWith(stripped, <<HASH>>)
             THEN CommentedFrom(lines, pattern, i + 1)
             ELSE IF Contains(line, pattern) THEN FALSE
             ELSE CommentedFrom(lines, pattern, i + 1)

\* Mutant of is_commented_out: True as soon as some comment line holds the
\* pattern.
is_commented_out_any(content, pattern) ==
    \/ CommentedFrom(Split(content), pattern, 1)
    \/ \E k \in 1..Len(Split(content)) :
          /\ StartsWith(Strip(Split(content)[k]), <<HASH>>)
          /\ Contains(Split(content)[k], pattern)

is_commented_out(content, pattern) == CommentedFrom(Split(content), pattern, 1)

(***************************************************************************)
(* The marker strings, as atom sequences.                                  *)
(***************************************************************************)
TERRAFORM_BLOCK == <<"terraform {">>
REQUIRED_PROVIDERS == <<"required_providers">>
AWS == <<"aws">>
\* 'provider "aws"' contains 'aws'
PROVIDER_AWS == <<"provider \"", "aws", "\"">>
DEFAULT_TAGS == <<"default_tags">>

AWS_VPC == <<"resource \"aws_vpc\"">>
AWS_SUBNET == <<"resource \"aws_subnet\"">>
AWS_INTERNET_GATEWAY == <<"resource \"aws_internet_gateway\"">>
AWS_ROUTE_TABLE == <<"resource \"aws_route_table\"">>
AWS_ROUTE_TABLE_ASSOCIATION == <<"resource \"aws_route_table_association\"">>

AWS_SECURITY_GROUP == <<"resource \"aws_security_group\"">>
INGRESS == <<"ingress {">>
\* '# ingress {' is '#', one blank, 'ingress {'
COMMENTED_INGRESS == <<HASH, SP, "ingress {">>
EGRESS == <<"egress {">>

AWS_AMI == <<"data \"aws_ami\"">>
AWS_INSTANCE == <<"resource \"aws_instance\"">>
USER_DATA == <<"user_data">>
VPC_SECURITY_GROUP_IDS == <<"vpc_security_group_ids">>

required_vars ==
    << <<"aws_region", 3>>, <<"project_name", 2>>, <<"vpc_cidr", 3>>,
       <<"instance_type", 3>>, <<"allowed_ssh_cidr", 2>> >>

\* Mutant of required_outputs: one weight raised, max_points left as it was.
required_outputs_heavy ==
    << <<"vpc_id", 2>>, <<"instance_id", 2>>, <<"instance_public_ip", 3>>,
       <<"website_url", 5>> >>

required_outputs ==
    << <<"vpc_id", 2>>, <<"instance_id", 2>>, <<"instance_public_ip", 3>>,
       <<"website_url", 3>> >>

\* f'variable "{var_name}"'
VariablePattern(var_name) == <<"variable \"" \o var_name \o "\"">>

\* f'output "{output_name}"'
OutputPattern(output_name) == <<"output \"" \o output_name \o "\"">>

(***************************************************************************)
(* The checkers.  A checker's locals are the record                         *)
(* [checks, points, awards]: checks and points as in the code, awards the   *)
(* history of what each sub-check added to points (0 for an else branch).   *)
(***************************************************************************)
Item(name, passed, detail) == [name |-> name, passed |-> passed, detail |-> detail]

NoChecks == [checks |-> <<>>, points |-> 0, awards |-> <<>>]

\* A sub-check that lists an item only when it passes.
AwardPassingOnly(acc, cond, name, ok, fail, pts) ==
    IF cond
    THEN [checks |-> Append(acc.checks, Item(name, TRUE, ok)),
          points |-> acc.points + pts,
          awards |-> Append(acc.awards, pts)]
    ELSE [checks |-> acc.checks,
          points |-> acc.points,
          awards |-> Append(acc.awards, 0)]

\* if cond: checks.append((name, True, ok)); points += pts
\* else:    checks.append((name, False, fail))
Award(acc, cond, name, ok, fail, pts) ==
    IF cond
    THEN [checks |-> Append(acc.checks, Item(name, TRUE, ok)),
          points |-> acc.points + pts,
          awards |-> Append(acc.awards, pts)]
    ELSE [checks |-> Append(acc.checks, Item(name, FALSE, fail)),
          points |-> acc.points,
          awards |-> Append(acc.awards, 0)]

\* Mutant of Active: a plain substring search, comment lines included.
ActiveNaive(content, pattern) == Contains(content, pattern)

\* pattern in content and not is_commented_out(content, pattern)
Active(content, pattern) ==
    Contains(content, pattern) /\ ~is_commented_out(content, pattern)

\* What a checker returns: (checks, points, max_points), with the awards.
Returns(acc, max_points) ==
    [checks |-> acc.checks, points |-> acc.points, max_points |-> max_points,
     awards |-> acc.awards]

\* Mutant of NotFound: an absent file counts for nothing in the total.
NotFoundNoMax(filename, max_points) ==
    [checks |-> <<Item(filename \o " exists", FALSE, "File not found")>>,
     points |-> 0, max_points |-> 0, awards |-> <<>>]

\* Mutant of NotFound: an absent file yields no item.
NotFoundNoItem(filename, max_points) ==
    [checks |-> <<>>, points |-> 0, max_points |-> max_points, awards |-> <<>>]

\* return [("<file> exists", False, "File not found")], 0, max_points
NotFound(filename, max_points) ==
    [checks |-> <<Item(filename \o " exists", FALSE, "File not found")>>,
     points |-> 0, max_points |-> max_points, awards |-> <<>>]

\* A provider check that wants the provider name on an active line too.
ProviderDeclaredActive(content) ==
    Active(content, REQUIRED_PROVIDERS) /\ Active(content, AWS)

\* 'required_providers' in content and 'aws' in content
\*     and not is_commented_out(content, 'required_providers')
ProviderDeclared(content) ==
    /\ Contains(content, REQUIRED_PROVIDERS)
    /\ Contains(content, AWS)
    /\ ~is_commented_out(content, REQUIRED_PROVIDERS)

check_main_tf(content) ==
    IF content = None THEN NotFound("main.tf", 10)
    ELSE LET a1 == Award(NoChecks, Active(content, TERRAFORM_BLOCK),
                         "Terraform block", "Configured",
                         "Not configured or commented", 2)
             a2 == Award(a1, ProviderDeclared(content),
                         "AWS provider defined", "hashicorp/aws",
                         "Missing or commented", 3)
             a3 == Award(a2, Active(content, PROVIDER_AWS),
                         "Provider configured", "AWS provider",
                         "Missing or commented", 3)
             a4 == Award(a3, Contains(content, DEFAULT_TAGS),
                         "Default tags", "Configured", "Missing", 2)
         IN  Returns(a4, 10)

check_vpc_tf(content) ==
    IF content = None THEN NotFound("vpc.tf", 20)
    ELSE LET a1 == Award(NoChecks, Active(content, AWS_VPC),
                         "VPC resource", "aws_vpc", "Missing or commented", 5)
             a2 == Award(a1, Active(content, AWS_SUBNET),
                         "Subnet resource", "aws_subnet", "Missing or commented", 5)
             a3 == Award(a2, Active(content, AWS_INTERNET_GATEWAY),
                         "Internet gateway", "aws_internet_gateway",
                         "Missing or commented", 4)
             a4 == Award(a3, Active(content, AWS_ROUTE_TABLE),
                         "Route table", "aws_route_table", "Missing or commented", 3)
             a5 == Award(a4, Active(content, AWS_ROUTE_TABLE_ASSOCIATION),
                         "Route association", "aws_route_table_association",
                         "Missing or commented", 3)
         IN  Returns(a5, 20)

\* A count that takes every 'ingress {' for a rule, commented or not.
IngressCountAll(content) == Count(content, INGRESS)

\* ingress_count = content.count('ingress {') - content.count('# ingress {')
IngressCount(content) == Count(content, INGRESS) - Count(content, COMMENTED_INGRESS)

\* A counted check that pays 3 points a rule all the way to the threshold.
IngressRulesProportional(acc, ingress_count) ==
    [checks |-> Append(acc.checks,
                  Item("Ingress rules", ingress_count >= 3,
                       ToString(ingress_count) \o " rules")),
     points |-> acc.points + (IF ingress_count >= 3 THEN 3 ELSE ingress_count) * 3,
     awards |-> Append(acc.awards,
                  (IF ingress_count >= 3 THEN 3 ELSE ingress_count) * 3)]

\* The counted check: full award from 3 rules on, 3 points a rule below.
IngressRules(acc, ingress_count) ==
    IF ingress_count >= 3
    THEN [checks |-> Append(acc.checks,
                       Item("Ingress rules", TRUE, ToString(ingress_count) \o " rules")),
          points |-> acc.points + 10,
          awards |-> Append(acc.awards, 10)]
    ELSE IF ingress_count > 0
    THEN [checks |-> Append(acc.checks,
                       Item("Ingress rules", FALSE,
                            "Only " \o ToString(ingress_count) \o " rules (need 3)")),
          points |-> acc.points + ingress_count * 3,
          awards |-> Append(acc.awards, ingress_count * 3)]
    ELSE [checks |-> Append(acc.checks, Item("Ingress rules", FALSE, "Missing")),
          points |-> acc.points,
          awards |-> Append(acc.awards, 0)]

check_security_tf(content) ==
    IF content = None THEN NotFound("security.tf", 20)
    ELSE LET a1 == Award(NoChecks, Active(content, AWS_SECURITY_GROUP),
                         "Security group", "aws_security_group",
                         "Missing or commented", 5)
             a2 == IngressRules(a1, IngressCount(content))
             a3 == Award(a2, Active(content, EGRESS),
                         "Egress rule", "All outbound", "Missing or commented", 5)
         IN  Returns(a3, 20)

check_ec2_tf(content) ==
    IF content = None THEN NotFound("ec2.tf", 25)
    ELSE LET a1 == Award(NoChecks, Active(content, AWS_AMI),
                         "AMI data source", "aws_ami", "Missing or commented", 5)
             a2 == Award(a1, Active(content, AWS_INSTANCE),
                         "EC2 instance", "aws_instance", "Missing or commented", 10)
             a3 == Award(a2, Active(content, USER_DATA),
                         "User data", "Bootstrap script", "Missing or commented", 5)
             a4 == Award(a3, Active(content, VPC_SECURITY_GROUP_IDS),
                         "Security group ref", "Attached", "Missing or commented", 5)
         IN  Returns(a4, 25)

RECURSIVE VariablesLoop(_, _, _)
\* for var_name, var_points in required_vars[i..]
VariablesLoop(acc, content, i) ==
    IF i > Len(required_vars) THEN acc
    ELSE LET var_name == required_vars[i][1]
             var_points == required_vars[i][2]
         IN  VariablesLoop(Award(acc, Active(content, VariablePattern(var_name)),
                                 "var." \o var_name, "Defined",
                                 "Missing or commented", var_points),
                           content, i + 1)

check_variables_tf(content) ==
    IF content = None THEN NotFound("variables.tf", 15)
    ELSE Returns(VariablesLoop(NoChecks, content, 1), 15)

RECURSIVE OutputsLoop(_, _, _)
\* for output_name, output_points in required_outputs[i..]
OutputsLoop(acc, content, i) ==
    IF i > Len(required_outputs) THEN acc
    ELSE LET output_name == required_outputs[i][1]
             output_points == required_outputs[i][2]
         IN  OutputsLoop(Award(acc, Active(content, OutputPattern(output_name)),
                               "output." \o output_name, "Defined",
                               "Missing or commented", output_points),
                         content, i + 1)

check_outputs_tf(content) ==
    IF content = None THEN NotFound("outputs.tf", 10)
    ELSE Returns(OutputsLoop(NoChecks, content, 1), 10)

\* file_checks of check_all_files: (filename, display_name, check_func, max_pts)
file_checks ==
    << [filename |-> "main.tf", display_name |-> "Provider Config", max_pts |-> 10],
       [filename |-> "vpc.tf", display_name |-> "VPC & Networking", max_pts |-> 20],
       [filename |-> "security.tf", display_name |-> "Security Group", max_pts |-> 20],
       [filename |-> "ec2.tf", display_name |-> "EC2 Instance", max_pts |-> 25],
       [filename |-> "variables.tf", display_name |-> "Variables", max_pts |-> 15],
       [filename |-> "outputs.tf", display_name |-> "Outputs", max_pts |-> 10] >>

\* The check_func entry of the file_checks row of filename, applied.
check_func(filename, content) ==
    CASE filename = "main.tf" -> check_main_tf(content)
      [] filename = "vpc.tf" -> check_vpc_tf(content)
      [] filename = "security.tf" -> check_security_tf(content)
      [] filename = "ec2.tf" -> check_ec2_tf(content)
      [] filename = "variables.tf" -> check_variables_tf(content)
      [] filename = "outputs.tf" -> check_outputs_tf(content)

(***************************************************************************)
(* Python float arithmetic (IEEE 754 binary64, round to nearest even), as   *)
(* far as check_all_files uses it: int / int, float * 100 and int(float).   *)
(* A positive float is its 53 significand bits, most significant first,     *)
(* with the binary exponent of the first bit; its value is                  *)
(* sum of bits[k] * 2^(exp - k + 1).                                        *)
(***************************************************************************)
\* Significand width of binary64.
MantissaBits == 53

FZero == [bits |-> <<>>, exp |-> 0]

RECURSIVE Normalize(_, _, _)
\* Scales a/b by powers of two until 1 <= a/b < 2; a/b * 2^exp is unchanged.
Normalize(a, b, exp) ==
    IF a >= 2 * b THEN Normalize(a, 2 * b, exp + 1)
    ELSE IF a < b THEN Normalize(2 * a, b, exp - 1)
    ELSE [a |-> a, b |-> b, exp |-> exp]

RECURSIVE Pow2Mod(_, _)
\* 2^k mod m, by repeated squaring
Pow2Mod(k, m) ==
    IF k = 0 THEN 1 % m
    ELSE LET h == Pow2Mod(k \div 2, m)
         IN  IF k % 2 = 0 THEN (h * h) % m ELSE (2 * h * h) % m

\* The next n bits of the binary expansion of r/b (r < b), and what is left:
\* after k bits the remainder of the long division is r * 2^k mod b.
DivBits(r, b, n) ==
    [bits |-> [k \in 1..n |->
                 IF 2 * ((r * Pow2Mod(k - 1, b)) % b) >= b THEN 1 ELSE 0],
     rem |-> (r * Pow2Mod(n, b)) % b]

\* bits + 1 on a most-significant-first bit sequence; carry is the overflow.
Increment(bits) ==
    LET zeros == {k \in 1..Len(bits) : bits[k] = 0}
    IN  IF zeros = {} THEN [bits |-> [k \in 1..Len(bits) |-> 0], carry |-> 1]
        ELSE LET last == CHOOSE k \in zeros : \A m \in zeros : m <= k
             IN  [bits |-> [k \in 1..Len(bits) |->
                              IF k < last THEN bits[k]
                              ELSE IF k = last THEN 1 ELSE 0],
                  carry |-> 0]

\* Rounds an exact value, given as at least MantissaBits + 1 leading bits
\* and whether anything non-zero follows them, to nearest, ties to even.
RoundNearestEven(bits, sticky, exp) ==
    LET kept == SubSeq(bits, 1, MantissaBits)
        half == bits[MantissaBits + 1] = 1
        more == sticky \/ \E k \in (MantissaBits + 2)..Len(bits) : bits[k] = 1
        up == half /\ (more \/ kept[MantissaBits] = 1)
        inc == Increment(kept)
    IN  IF ~up THEN [bits |-> kept, exp |-> exp]
        ELSE IF inc.carry = 1
        THEN [bits |-> <<1>> \o SubSeq(inc.bits, 1, MantissaBits - 1), exp |-> exp + 1]
        ELSE [bits |-> inc.bits, exp |-> exp]

\* a / b for ints a >= 0, b > 0
FloatDiv(a, b) ==
    IF a = 0 THEN FZero
    ELSE LET n == Normalize(a, b, 0)
             d == DivBits(n.a - n.b, n.b, MantissaBits)
         IN  RoundNearestEven(<<1>> \o d.bits, d.rem # 0, n.exp)

RECURSIVE BitsValue(_, _)
\* The number bits[1..k] spells.
BitsValue(bits, k) == IF k = 0 THEN 0 ELSE 2 * BitsValue(bits, k - 1) + bits[k]

\* The w-bit spelling of v < 2^w.
ToBits(v, w) == [k \in 1..w |-> (v \div 2^(w - k)) % 2]

\* Number of bits of v, without leading zeros.
BitLength(v) == CHOOSE n \in 0..30 : v < 2^n /\ (n = 0 \/ v >= 2^(n - 1))

\* bits * c, exact, for a bit sequence of 41 to 60 bits and c < 2^10: the
\* sequence is multiplied in three limbs, the two low ones of 20 bits.
Times(bits, c) ==
    LET n == Len(bits)
        lo == BitsValue(SubSeq(bits, n - 19, n), 20)
        mid == BitsValue(SubSeq(bits, n - 39, n - 20), 20)
        hi == BitsValue(SubSeq(bits, 1, n - 40), n - 40)
        p0 == lo * c
        p1 == mid * c + p0 \div 2^20
        p2 == hi * c + p1 \div 2^20
    IN  ToBits(p2, BitLength(p2)) \o ToBits(p1 % 2^20, 20) \o ToBits(p0 % 2^20, 20)

\* x * c for a float x >= 0 and an int c >= 1 that a float holds exactly
FloatTimes(x, c) ==
    IF x = FZero THEN FZero
    ELSE LET product == Times(x.bits, c)
             grown == Len(product) - Len(x.bits)
         IN  IF grown = 0 THEN [bits |-> product, exp |-> x.exp]
             ELSE RoundNearestEven(product, FALSE, x.exp + grown)

\* int(x) for a float x >= 0: the fraction is dropped
FloatToInt(x) ==
    IF x = FZero \/ x.exp < 0 THEN 0 ELSE BitsValue(x.bits, x.exp + 1)

(***************************************************************************)
(* Inputs: the texts of at most MaxLen tokens over a file's tokens.        *)
(***************************************************************************)
Filenames == {file_checks[k].filename : k \in 1..Len(file_checks)}

Common == {<<HASH>>, <<SP>>, <<NL>>}

\* The markers a file's checker looks for.
Markers(filename) ==
    CASE filename = "main.tf" ->
           {TERRAFORM_BLOCK, REQUIRED_PROVIDERS, AWS, PROVIDER_AWS, DEFAULT_TAGS}
      [] filename = "vpc.tf" ->
           {AWS_VPC, AWS_SUBNET, AWS_INTERNET_GATEWAY, AWS_ROUTE_TABLE,
            AWS_ROUTE_TABLE_ASSOCIATION}
      [] filename = "security.tf" -> {AWS_SECURITY_GROUP, INGRESS, EGRESS}
      [] filename = "ec2.tf" ->
           {AWS_AMI, AWS_INSTANCE, USER_DATA, VPC_SECURITY_GROUP_IDS}
      [] filename = "variables.tf" ->
           {VariablePattern(required_vars[k][1]) : k \in 1..Len(required_vars)}
      [] filename = "outputs.tf" ->
           {OutputPattern(required_outputs[k][1]) : k \in 1..Len(required_outputs)}

Tokens(filename) ==
    Markers(filename) \cup Common
        \cup (IF filename = "security.tf"
              THEN {<<FILLER>>, COMMENTED_INGRESS}
              ELSE {})

SeqsUpTo(S, n) == UNION {[1..k -> S] : k \in 0..n}

Texts(filename) == {Flatten(toks) : toks \in SeqsUpTo(Tokens(filename), MaxLen)}

(***************************************************************************)
(* The project directory of a run.  A target file is missing, unreadable    *)
(* (open() or read() fails with an error other than FileNotFoundError), or  *)
(* holds a text.                                                            *)
(***************************************************************************)
Missing == [state |-> "missing", text |-> <<>>]
Unreadable == [state |-> "unreadable", text |-> <<>>]
TextFile(text) == [state |-> "text", text |-> text]

\* What open()/read() raise for a file that exists and cannot be read.
OtherErrors == {"PermissionError", "IsADirectoryError", "UnicodeDecodeError"}

\* The declarations a complete file holds, in the order its checker asks.
Declarations(name) ==
    CASE name = "main.tf" ->
           <<TERRAFORM_BLOCK, REQUIRED_PROVIDERS, PROVIDER_AWS, DEFAULT_TAGS>>
      [] name = "vpc.tf" ->
           <<AWS_VPC, AWS_SUBNET, AWS_INTERNET_GATEWAY, AWS_ROUTE_TABLE,
             AWS_ROUTE_TABLE_ASSOCIATION>>
      [] name = "security.tf" ->
           <<AWS_SECURITY_GROUP, INGRESS, INGRESS, INGRESS, EGRESS>>
      [] name = "ec2.tf" ->
           <<AWS_AMI, AWS_INSTANCE, USER_DATA, VPC_SECURITY_GROUP_IDS>>
      [] name = "variables.tf" ->
           [k \in 1..Len(required_vars) |-> VariablePattern(required_vars[k][1])]
      [] name = "outputs.tf" ->
           [k \in 1..Len(required_outputs) |-> OutputPattern(required_outputs[k][1])]

RECURSIVE Written(_, _, _)
\* A file with one declaration a line, the first kept of them active and
\* the others commented out with '# '.
Written(decls, kept, k) ==
    IF k > Len(decls) THEN <<>>
    ELSE (IF k <= kept THEN <<>> ELSE <<HASH, SP>>)
             \o decls[k] \o <<SP, FILLER, NL>> \o Written(decls, kept, k + 1)

\* How many declarations the half-done file of a name has active.
HalfDone(name) ==
    CASE name = "main.tf" -> 1
      [] name = "vpc.tf" -> 2
      [] name = "security.tf" -> 3
      [] name = "ec2.tf" -> 3
      [] name = "variables.tf" -> 1
      [] name = "outputs.tf" -> 1

Complete(name) == Written(Declarations(name), Len(Declarations(name)), 1)

InProgress(name) == Written(Declarations(name), HalfDone(name), 1)

\* The states of one target file a run is started on.
FileStates(name) ==
    <<Missing, Unreadable, TextFile(<<>>), TextFile(InProgress(name)),
      TextFile(Complete(name))>>

\* load_tf_content: the text, None for FileNotFoundError; any other error
\* is not caught and leaves the function as an exception.
load_tf_content(file) ==
    IF file.state = "missing" THEN {[raised |-> "", value |-> None]}
    ELSE IF file.state = "text" THEN {[raised |-> "", value |-> file.text]}
    ELSE {[raised |-> e, value |-> None] : e \in OtherErrors}

\* progress_pct = int((total_points / max_total) * 100) if max_total > 0 else 0
ProgressPct(total, max) ==
    IF max > 0 THEN FloatToInt(FloatTimes(FloatDiv(total, max), 100)) ELSE 0

\* A bar that rounds its filled cells to the nearest cell.
BarFilledNearest(pct) == (pct + 2) \div 5

\* bar_filled = int(progress_pct / 5)
BarFilled(pct) == FloatToInt(FloatDiv(pct, 5))

\* A closing remark whose second branch starts above 80 percent.
RemarkAboveEighty(pct) ==
    IF pct = 100 THEN "All Terraform files complete!"
    ELSE IF pct > 80 THEN "Almost there! Check the items marked with X"
    ELSE "Keep going! See README.md for guidance."

\* The closing remark, by its branch.
Remark(pct) ==
    IF pct = 100 THEN "All Terraform files complete!"
    ELSE IF pct >= 80 THEN "Almost there! Check the items marked with X"
    ELSE "Keep going! See README.md for guidance."

\* A status icon that turns complete from 80 percent of the file's points.
StatusIconByShare(pts, max) ==
    IF 5 * pts >= 4 * max THEN "complete" ELSE "in progress"

\* status_icon of a file's header line
StatusIcon(pts, max) == IF pts = max THEN "complete" ELSE "in progress"

VARIABLES
    pc,            \* where the program is
    validate,      \* args.validate
    fs,            \* the project directory: filename -> file state
    i,             \* position of the for loop in file_checks
    filename,      \* loop variable of check_all_files: the file being graded
    content,       \* loop variable: what load_tf_content returned
    checks,        \* loop variable: the items check_func returned
    points,        \* loop variable: the points check_func returned
    max_points,    \* loop variable: the max_points check_func returned
    awards,        \* history: what each sub-check of the last call added
    total_points,
    max_total,
    printed,       \* the per-file sections printed so far
    progress_pct,
    bar_filled,
    bar_empty,
    bar_color,
    remark,        \* the closing remark printed
    result,        \* what check_all_files returned
    exception,     \* the exception that left main, "" if none
    exit_status,   \* the exit status of the process, -1 while it runs
    pattern,       \* argument of a call of is_commented_out
    commented,     \* what that call returned
    earlier,       \* history: the report of the run before this one
    edited         \* history: the file changed since that run, "" if none

loopVars == <<filename, content, checks, points, max_points, awards>>
runVars == <<validate, fs, i, total_points, max_total, printed>>
summaryVars == <<progress_pct, bar_filled, bar_empty, bar_color, remark, result>>
endVars == <<exception, exit_status>>
callVars == <<pattern, commented>>
historyVars == <<earlier, edited>>
vars == <<pc, loopVars, runVars, summaryVars, endVars, callVars, historyVars>>

NoLoopVars ==
    /\ filename = ""
    /\ content = None
    /\ checks = <<>>
    /\ points = 0
    /\ max_points = 0
    /\ awards = <<>>

NoRunVars ==
    /\ validate = FALSE
    /\ fs = [n \in Filenames |-> Missing]
    /\ i = 0
    /\ total_points = 0
    /\ max_total = 0
    /\ printed = <<>>

NoSummary ==
    /\ progress_pct = 0
    /\ bar_filled = 0
    /\ bar_empty = 0
    /\ bar_color = ""
    /\ remark = ""
    /\ result = "none"

NoEnd == exception = "" /\ exit_status = -1

NoCall == pattern = <<>> /\ commented = FALSE

\* What a run of check_all_files leaves behind: the sections it printed,
\* its totals, its bar, its closing remark and its return value.
Report ==
    [printed |-> printed, total_points |-> total_points,
     max_total |-> max_total, progress_pct |-> progress_pct,
     bar_filled |-> bar_filled, bar_empty |-> bar_empty,
     bar_color |-> bar_color, remark |-> remark, result |-> result]

NoReport ==
    [printed |-> <<>>, total_points |-> 0, max_total |-> 0, progress_pct |-> 0,
     bar_filled |-> 0, bar_empty |-> 0, bar_color |-> "", remark |-> "",
     result |-> "none"]

NoHistory == earlier = NoReport /\ edited = ""

(***************************************************************************)
(* Spec: one run of the program, main() to exit.                           *)
(***************************************************************************)
Init ==
    /\ pc = "main"
    /\ validate \in BOOLEAN
    /\ \E choice \in [Filenames -> 1..Len(FileStates("main.tf"))] :
           fs = [n \in Filenames |-> FileStates(n)[choice[n]]]
    \* run_terraform_validate never looks at the target files
    /\ validate => \A n \in Filenames : fs[n] = Missing
    /\ i = 0
    /\ total_points = 0
    /\ max_total = 0
    /\ printed = <<>>
    /\ NoLoopVars
    /\ NoSummary
    /\ NoEnd
    /\ NoCall
    /\ NoHistory

\* A main() whose totals live on from whatever ran before.
MainKeepsTotals ==
    /\ pc = "main"
    /\ pc' = IF validate THEN "terraform" ELSE "loop"
    /\ i' = 1
    /\ UNCHANGED <<validate, fs, total_points, max_total, printed>>
    /\ UNCHANGED <<loopVars, summaryVars, endVars, callVars, historyVars>>

\* main(): parse the arguments and branch; check_all_files starts with
\* total_points = 0, max_total = 0, nothing printed yet and the loop at the
\* first row.
Main ==
    /\ pc = "main"
    /\ pc' = IF validate THEN "terraform" ELSE "loop"
    /\ i' = 1
    /\ total_points' = 0
    /\ max_total' = 0
    /\ printed' = <<>>
    /\ UNCHANGED <<validate, fs>>
    /\ UNCHANGED <<loopVars, summaryVars, endVars, callVars, historyVars>>

\* A section whose header shows the points added up so far.
SectionRunningTotal(row, r) ==
    [filename |-> row.filename,
     display_name |-> row.display_name,
     status_icon |-> StatusIcon(r.points, r.max_points),
     points |-> total_points + r.points,
     max_points |-> r.max_points,
     checks |-> r.checks]

\* What the loop prints for one file: the header line with the status icon
\* and points/max_points, then the items.
Section(row, r) ==
    [filename |-> row.filename,
     display_name |-> row.display_name,
     status_icon |-> StatusIcon(r.points, r.max_points),
     points |-> r.points,
     max_points |-> r.max_points,
     checks |-> r.checks]

\* One pass of the for loop over file_checks: load, check, add up, print.
\* An exception of load_tf_content leaves check_all_files and main.
GradeFile ==
    /\ pc = "loop"
    /\ i <= Len(file_checks)
    /\ LET row == file_checks[i]
       IN  \E loaded \in load_tf_content(fs[row.filename]) :
             IF loaded.raised # ""
             THEN /\ pc' = "exit"
                  /\ exception' = loaded.raised
                  /\ exit_status' = 1
                  /\ filename' = row.filename
                  /\ UNCHANGED <<content, checks, points, max_points, awards>>
                  /\ UNCHANGED <<runVars, summaryVars, callVars, historyVars>>
             ELSE \E r \in {check_func(row.filename, loaded.value)} :
                      /\ filename' = row.filename
                      /\ content' = loaded.value
                      /\ checks' = r.checks
                      /\ points' = r.points
                      /\ max_points' = r.max_points
                      /\ awards' = r.awards
                      /\ total_points' = total_points + r.points
                      /\ max_total' = max_total + r.max_points
                      /\ printed' = Append(printed, Section(row, r))
                      /\ i' = i + 1
                      /\ pc' = "loop"
                      /\ UNCHANGED <<validate, fs, summaryVars, endVars, callVars,
                                      historyVars>>

\* After the loop: the progress bar, the score line, the closing remark and
\* the return value.
Summary ==
    /\ pc = "loop"
    /\ i > Len(file_checks)
    /\ LET pct == ProgressPct(total_points, max_total)
       IN  /\ progress_pct' = pct
           /\ bar_filled' = BarFilled(pct)
           /\ bar_empty' = 20 - BarFilled(pct)
           /\ bar_color' = IF pct >= 80 THEN "GREEN" ELSE "YELLOW"
           /\ remark' = Remark(pct)
           /\ result' = IF pct = 100 THEN "True" ELSE "False"
    /\ pc' = "returned"
    /\ UNCHANGED <<loopVars, runVars, endVars, callVars, historyVars>>

\* run_terraform_validate(): every path prints its outcome and returns.
RunTerraformValidate ==
    /\ pc = "terraform"
    /\ \E outcome \in {"Terraform not found", "Terraform not installed",
                       "terraform init failed", "Configuration is valid!",
                       "Validation failed"} :
           remark' = outcome
    /\ pc' = "returned"
    /\ UNCHANGED <<loopVars, runVars, endVars, callVars, historyVars>>
    /\ UNCHANGED <<progress_pct, bar_filled, bar_empty, bar_color, result>>

\* An exit whose status is the outcome of check_all_files.
ExitByResult ==
    /\ pc = "returned"
    /\ pc' = "exit"
    /\ exit_status' = IF validate \/ result = "True" THEN 0 ELSE 1
    /\ UNCHANGED <<exception, loopVars, runVars, summaryVars, callVars,
                    historyVars>>

\* main() returns; the interpreter exits with status 0.
Exit ==
    /\ pc = "returned"
    /\ pc' = "exit"
    /\ exit_status' = 0
    /\ UNCHANGED <<exception, loopVars, runVars, summaryVars, callVars,
                    historyVars>>

Next == Main \/ GradeFile \/ Summary \/ RunTerraformValidate \/ Exit

Spec == Init /\ [][Next]_vars

(***************************************************************************)
(* SpecTwice: the program is run, and run once more on the same files.     *)
(***************************************************************************)
\* The grading pass has ended and is started again: what it left behind is
\* kept for comparison, and nothing but the position and the exit status is
\* reset, the new pass sets up by itself whatever it uses.
Rerun ==
    /\ pc = "exit"
    /\ ~validate
    /\ exit_status = 0
    /\ earlier = NoReport
    /\ earlier' = Report
    /\ pc' = "main"
    /\ exit_status' = -1
    /\ UNCHANGED <<exception, edited, loopVars, runVars, summaryVars, callVars>>

NextTwice == Next \/ Rerun

SpecTwice == Init /\ [][NextTwice]_vars

(***************************************************************************)
(* SpecEdit: the program is run, one target file is rewritten or removed,  *)
(* and the program is run once more.                                       *)
(***************************************************************************)
\* What a target file may be turned into between two runs.
Rewritten(name) ==
    {Missing, TextFile(<<>>), TextFile(InProgress(name)), TextFile(Complete(name))}

InitEdit ==
    /\ pc = "main"
    /\ validate = FALSE
    /\ \E choice \in [Filenames -> 1..3] :
           fs = [n \in Filenames |->
                   <<Missing, TextFile(InProgress(n)),
                     TextFile(Complete(n))>>[choice[n]]]
    /\ i = 0
    /\ total_points = 0
    /\ max_total = 0
    /\ printed = <<>>
    /\ NoLoopVars
    /\ NoSummary
    /\ NoEnd
    /\ NoCall
    /\ NoHistory

\* Between two runs one file is given another content or removed.
Edit ==
    /\ pc = "exit"
    /\ exit_status = 0
    /\ earlier = NoReport
    /\ \E name \in Filenames :
          \E new \in Rewritten(name) \ {fs[name]} :
             /\ fs' = [fs EXCEPT ![name] = new]
             /\ edited' = name
    /\ earlier' = Report
    /\ pc' = "main"
    /\ exit_status' = -1
    /\ UNCHANGED <<validate, i, total_points, max_total, printed>>
    /\ UNCHANGED <<exception, loopVars, summaryVars, callVars>>

NextEdit == Main \/ GradeFile \/ Summary \/ Exit \/ Edit

SpecEdit == InitEdit /\ [][NextEdit]_vars

(***************************************************************************)
(* SpecChecker: one call of one checker on any input.                      *)
(***************************************************************************)
InitChecker ==
    /\ pc = "call"
    /\ filename \in Filenames
    \* content \in {None} \cup Texts(filename), a text for each run of tokens
    /\ \/ content = None
       \/ \E toks \in SeqsUpTo(Tokens(filename), MaxLen) : content = Flatten(toks)
    /\ checks = <<>>
    /\ points = 0
    /\ max_points = 0
    /\ awards = <<>>
    /\ NoRunVars
    /\ NoSummary
    /\ NoEnd
    /\ NoCall
    /\ NoHistory

\* checks, points, max_points = check_func(content)
CallChecker ==
    /\ pc = "call"
    /\ \E r \in {check_func(filename, content)} :
           /\ checks' = r.checks
           /\ points' = r.points
           /\ max_points' = r.max_points
           /\ awards' = r.awards
    /\ pc' = "returned"
    /\ UNCHANGED <<filename, content, runVars, summaryVars, endVars, callVars,
                    historyVars>>

NextChecker == CallChecker

SpecChecker == InitChecker /\ [][NextChecker]_vars

(***************************************************************************)
(* SpecAppend: a checker is called on a text, a line is appended to the    *)
(* text, and the checker is called on the longer text.                     *)
(***************************************************************************)
\* The longest text, and the longest line appended to it, in tokens.
AppendLen == MaxLen - 3

ShortTexts(name) == {Flatten(toks) : toks \in SeqsUpTo(Tokens(name), AppendLen)}

\* A line holds no newline.
Lines(name) ==
    {Flatten(toks) : toks \in SeqsUpTo(Tokens(name) \ {<<NL>>}, AppendLen)}

\* The text with one more line: the line starts after a newline, the one
\* the text ends with or a new one.
Appended(text, line) ==
    IF text = <<>> \/ text[Len(text)] = NL
    THEN text \o line
    ELSE text \o <<NL>> \o line

InitAppend ==
    /\ pc = "call"
    /\ filename \in Filenames
    /\ content \in ShortTexts(filename)
    /\ checks = <<>>
    /\ points = 0
    /\ max_points = 0
    /\ awards = <<>>
    /\ NoRunVars
    /\ NoSummary
    /\ NoEnd
    /\ NoCall
    /\ NoHistory

\* A line is appended to the file and its checker is called again; what
\* the checker returned for the shorter text is kept for comparison.
AppendLine ==
    /\ pc = "returned"
    /\ earlier = NoReport
    /\ earlier' = [NoReport EXCEPT
                     !.printed = <<[filename |-> filename, checks |-> checks,
                                    points |-> points, max_points |-> max_points,
                                    awards |-> awards]>>,
                     !.total_points = points,
                     !.max_total = max_points]
    /\ edited' = filename
    /\ \E line \in Lines(filename) :
          \E r \in {check_func(filename, Appended(content, line))} :
             /\ content' = Appended(content, line)
             /\ checks' = r.checks
             /\ points' = r.points
             /\ max_points' = r.max_points
             /\ awards' = r.awards
    /\ UNCHANGED <<pc, filename, runVars, summaryVars, endVars, callVars>>

NextAppend == CallChecker \/ AppendLine

SpecAppend == InitAppend /\ [][NextAppend]_vars

(***************************************************************************)
(* SpecCommented: one call of is_commented_out on any text and pattern.    *)
(***************************************************************************)
PatternTokens == {INGRESS, EGRESS, <<FILLER>>} \cup Common

Patterns == {INGRESS, EGRESS, COMMENTED_INGRESS, <<HASH>>}

InitCommented ==
    /\ pc = "call"
    /\ content \in {Flatten(toks) : toks \in SeqsUpTo(PatternTokens, MaxLen)}
    /\ pattern \in Patterns
    /\ commented = FALSE
    /\ filename = ""
    /\ checks = <<>>
    /\ points = 0
    /\ max_points = 0
    /\ awards = <<>>
    /\ NoRunVars
    /\ NoSummary
    /\ NoEnd
    /\ NoHistory

\* commented = is_commented_out(content, pattern)
CallCommented ==
    /\ pc = "call"
    /\ commented' = is_commented_out(content, pattern)
    /\ pc' = "returned"
    /\ UNCHANGED <<pattern, loopVars, runVars, summaryVars, endVars, historyVars>>

NextCommented == CallCommented

SpecCommented == InitCommented /\ [][NextCommented]_vars

(***************************************************************************)
(* What the claims speak of, stated without the grader's own functions.    *)
(***************************************************************************)
\* The lines of a text: the stretches between newlines.
LineStarts(s) == {a \in 1..(Len(s) + 1) : a = 1 \/ s[a - 1] = NL}

LineEnd(s, a) ==
    CHOOSE b \in (a - 1)..Len(s) :
        /\ b = Len(s) \/ s[b + 1] = NL
        /\ \A k \in a..b : s[k] # NL

LinesOf(s) == {SubSeq(s, a, LineEnd(s, a)) : a \in LineStarts(s)}

\* A line is inert: blank, or a comment line.
Inert(line) ==
    \/ \A k \in 1..Len(line) : line[k] \in Whitespace
    \/ \E j \in 1..Len(line) :
          line[j] = HASH /\ \A k \in 1..(j - 1) : line[k] \in Whitespace

OnActiveLine(s, p) == \E line \in LinesOf(s) : ~Inert(line) /\ Contains(line, p)

OnInertLine(s, p) == \E line \in LinesOf(s) : Inert(line) /\ Contains(line, p)

OnlyOnInertLines(s, p) == ~OnActiveLine(s, p)

\* The sub-checks of each file, in order: marker, points, and kind
\* ("presence": one marker; "provider": a marker and a provider name;
\* "tags": the default-tags block; "counted": the inbound-rule blocks).
SubChecks(name) ==
    CASE name = "main.tf" ->
           << [marker |-> TERRAFORM_BLOCK, weight |-> 2, kind |-> "presence"],
              [marker |-> REQUIRED_PROVIDERS, weight |-> 3, kind |-> "provider"],
              [marker |-> PROVIDER_AWS, weight |-> 3, kind |-> "presence"],
              [marker |-> DEFAULT_TAGS, weight |-> 2, kind |-> "tags"] >>
      [] name = "vpc.tf" ->
           << [marker |-> AWS_VPC, weight |-> 5, kind |-> "presence"],
              [marker |-> AWS_SUBNET, weight |-> 5, kind |-> "presence"],
              [marker |-> AWS_INTERNET_GATEWAY, weight |-> 4, kind |-> "presence"],
              [marker |-> AWS_ROUTE_TABLE, weight |-> 3, kind |-> "presence"],
              [marker |-> AWS_ROUTE_TABLE_ASSOCIATION, weight |-> 3, kind |-> "presence"] >>
      [] name = "security.tf" ->
           << [marker |-> AWS_SECURITY_GROUP, weight |-> 5, kind |-> "presence"],
              [marker |-> INGRESS, weight |-> 10, kind |-> "counted"],
              [marker |-> EGRESS, weight |-> 5, kind |-> "presence"] >>
      [] name = "ec2.tf" ->
           << [marker |-> AWS_AMI, weight |-> 5, kind |-> "presence"],
              [marker |-> AWS_INSTANCE, weight |-> 10, kind |-> "presence"],
              [marker |-> USER_DATA, weight |-> 5, kind |-> "presence"],
              [marker |-> VPC_SECURITY_GROUP_IDS, weight |-> 5, kind |-> "presence"] >>
      [] name = "variables.tf" ->
           << [marker |-> <<"variable \"aws_region\"">>, weight |-> 3, kind |-> "presence"],
              [marker |-> <<"variable \"project_name\"">>, weight |-> 2, kind |-> "presence"],
              [marker |-> <<"variable \"vpc_cidr\"">>, weight |-> 3, kind |-> "presence"],
              [marker |-> <<"variable \"instance_type\"">>, weight |-> 3, kind |-> "presence"],
              [marker |-> <<"variable \"allowed_ssh_cidr\"">>, weight |-> 2, kind |-> "presence"] >>
      [] name = "outputs.tf" ->
           << [marker |-> <<"output \"vpc_id\"">>, weight |-> 2, kind |-> "presence"],
              [marker |-> <<"output \"instance_id\"">>, weight |-> 2, kind |-> "presence"],
              [marker |-> <<"output \"instance_public_ip\"">>, weight |-> 3, kind |-> "presence"],
              [marker |-> <<"output \"website_url\"">>, weight |-> 3, kind |-> "presence"] >>

\* points_possible of each file, as the data model fixes it
PointsPossible(name) ==
    CASE name = "main.tf" -> 10
      [] name = "vpc.tf" -> 20
      [] name = "security.tf" -> 20
      [] name = "ec2.tf" -> 25
      [] name = "variables.tf" -> 15
      [] name = "outputs.tf" -> 10

\* Every required marker of the file is active, with at least 3 rules
\* counted by the inbound-rule check.
FullyDone(name, text) ==
    \A k \in 1..Len(SubChecks(name)) :
        IF SubChecks(name)[k].kind = "counted"
        THEN IngressCount(text) >= 3
        ELSE OnActiveLine(text, SubChecks(name)[k].marker)

AllPassed(items) == \A k \in 1..Len(items) : items[k].passed

ExistsItem(name) == [name |-> name \o " exists", passed |-> FALSE, detail |-> "File not found"]

\* A grading run has come to its end, one way or the other.
GradingOver == pc \in {"returned", "exit"} /\ ~validate

(***************************************************************************)
(* The claims.                                                              *)
(***************************************************************************)
\* C1: whatever a checker is given, an absent file or any text, the points
\* it returns lie between 0 and the max_points it returns.
PointsInRange == pc = "returned" => 0 <= points /\ points <= max_points

\* C1 witness: the security checker has returned every point of its file.
PointsInRangeReached ==
    /\ pc = "returned"
    /\ filename = "security.tf"
    /\ content # None
    /\ points = max_points

\* C2: when every sub-check of a present file awards its full points (every
\* marker active, three rules counted) every item passes and the points are
\* the file's points_possible, which is the fixed 10, 20, 20, 25, 15, 10.
FullAwardsSumToPossible ==
    (pc = "returned" /\ content # None) =>
        /\ FullyDone(filename, content) => AllPassed(checks)
        /\ AllPassed(checks) =>
               /\ points = max_points
               /\ max_points = PointsPossible(filename)
               /\ \A k \in 1..Len(awards) : awards[k] = SubChecks(filename)[k].weight

EveryFileDone == \A n \in Filenames : fs[n].state = "text" /\ FullyDone(n, fs[n].text)

\* C3: a run over six present files with every marker active ends with
\* percent 100, the 'complete' remark and all 20 cells of the bar filled.
CompleteRun ==
    (GradingOver /\ EveryFileDone) =>
        /\ progress_pct = 100
        /\ remark = "All Terraform files complete!"
        /\ bar_filled = 20
        /\ bar_empty = 0

\* Only aws_vpc and aws_subnet are active in vpc.tf, every other file is done.
HalfNetwork ==
    /\ fs["vpc.tf"].state = "text"
    /\ \A k \in 1..Len(SubChecks("vpc.tf")) :
           OnActiveLine(fs["vpc.tf"].text, SubChecks("vpc.tf")[k].marker) <=> k <= 2
    /\ \A n \in Filenames \ {"vpc.tf"} :
           fs[n].state = "text" /\ FullyDone(n, fs[n].text)

EveryFileMissing == \A n \in Filenames : fs[n] = Missing

\* C5: a run with all six files absent ends with 0 of 100 points, percent 0,
\* the 'in progress' remark and six items in all, each a failing
\* '<file> exists'.
AllAbsentRun ==
    (GradingOver /\ EveryFileMissing) =>
        /\ total_points = 0
        /\ max_total = 100
        /\ progress_pct = 0
        /\ remark = "Keep going! See README.md for guidance."
        /\ Len(printed) = 6
        /\ \A k \in 1..Len(printed) :
               printed[k].checks = <<ExistsItem(file_checks[k].filename)>>

\* C5 witness: such a run has printed its summary.
AllAbsentRunReached ==
    /\ pc = "returned"
    /\ ~validate
    /\ EveryFileMissing
    /\ remark # ""

\* C6: a checker given an absent file returns the single failing item
\* '<file> exists' with detail 'File not found', 0 points and the file's
\* fixed points_possible.
AbsentFileResult ==
    (pc = "returned" /\ content = None) =>
        /\ checks = <<ExistsItem(filename)>>
        /\ points = 0
        /\ max_points = PointsPossible(filename)

\* C6 witness: the ec2 checker has returned for an absent file.
AbsentFileReached ==
    /\ pc = "returned"
    /\ content = None
    /\ filename = "ec2.tf"
    /\ Len(checks) = 1

\* C7: a target file that exists and cannot be read is graded as an absent
\* one, with 0 points and a 'File not found' item, and the run goes on.
UnreadableGradedAsAbsent ==
    \A k \in 1..Len(file_checks) :
        (/\ ~validate
         /\ fs[file_checks[k].filename].state = "unreadable"
         /\ pc \in {"loop", "returned", "exit"}
         /\ i > k \/ pc = "exit") =>
            /\ exception = ""
            /\ Len(printed) >= k
            /\ printed[k].points = 0
            /\ printed[k].checks = <<ExistsItem(file_checks[k].filename)>>

NoCreditOnlyCommented ==
    (pc = "returned" /\ content # None) =>
        \A k \in 1..Len(SubChecks(filename)) :
            (/\ SubChecks(filename)[k].kind # "counted"
             /\ OnlyOnInertLines(content, SubChecks(filename)[k].marker)) =>
                awards[k] = 0 /\ ~checks[k].passed

\* C10: a single-marker presence sub-check whose marker occurs on an active
\* line awards its full points and passes, commented duplicates or not.
CreditForActiveMarker ==
    (pc = "returned" /\ content # None) =>
        \E subs \in {SubChecks(filename)} :
        \E active \in {{line \in LinesOf(content) : ~Inert(line)}} :
            \A k \in 1..Len(subs) :
                (/\ subs[k].kind = "presence"
                 /\ \E line \in active : Contains(line, subs[k].marker)) =>
                    awards[k] = subs[k].weight /\ checks[k].passed

\* C10 witness: aws_vpc is declared on an active line and on a comment line
\* too, and the sub-check has passed.
CreditWithDuplicateReached ==
    /\ pc = "returned"
    /\ filename = "vpc.tf"
    /\ content # None
    /\ OnActiveLine(content, AWS_VPC)
    /\ OnInertLine(content, AWS_VPC)
    /\ checks[1].passed

(***************************************************************************)
(* The counted check of security.tf.                                       *)
(***************************************************************************)
\* The line a position lies on starts at the last line start before it.
LineStartOf(s, at) == CHOOSE a \in LineStarts(s) :
                         a <= at /\ \A b \in LineStarts(s) : b <= at => b <= a

\* The occurrences of a marker that lie on a line neither blank nor a comment.
ActiveOccurrences(s, p) ==
    {at \in 1..Len(s) :
        /\ MatchAt(s, p, at)
        /\ ~Inert(SubSeq(s, LineStartOf(s, at), LineEnd(s, LineStartOf(s, at))))}

\* What the inbound-rule item shows for a count of n rules.
ShownCount(n) ==
    IF n >= 3 THEN ToString(n) \o " rules"
    ELSE IF n > 0 THEN "Only " \o ToString(n) \o " rules (need 3)"
    ELSE "Missing"

\* C11: the ingress count the counted check of check_security_tf works
\* with is the number of occurrences of 'ingress {' on active lines, those
\* neither blank nor a '#' comment line, for every text.
IngressCountIsActiveCount ==
    (pc = "returned" /\ filename = "security.tf" /\ content # None) =>
        /\ IngressCount(content) = Cardinality(ActiveOccurrences(content, INGRESS))
        /\ checks[2].detail =
              ShownCount(Cardinality(ActiveOccurrences(content, INGRESS)))

\* Where a marker occurs in a text.
Occurrences(s, p) == {at \in 1..Len(s) : MatchAt(s, p, at)}

\* c = count('ingress {') - count('# ingress {')
CountedRules(s) ==
    Cardinality(Occurrences(s, INGRESS))
        - Cardinality(Occurrences(s, COMMENTED_INGRESS))

\* Exactly two active 'ingress {' blocks and one '# ingress {' comment line.
TwoActiveOneCommented(s) ==
    /\ Cardinality(Occurrences(s, INGRESS)) = 3
    /\ Cardinality(ActiveOccurrences(s, INGRESS)) = 2
    /\ Cardinality(Occurrences(s, COMMENTED_INGRESS)) = 1
    /\ OnInertLine(s, COMMENTED_INGRESS)

\* C12: for c = count('ingress {') - count('# ingress {') the counted check
\* of check_security_tf awards 10 points and passes when c >= 3, awards 3*c
\* points (always less than 10) and fails when 0 < c < 3, and awards nothing
\* and fails when c <= 0; two active blocks and one '# ingress {' line make
\* c = 2 and 6 points.
CountedAwardTable ==
    (pc = "returned" /\ filename = "security.tf" /\ content # None) =>
        \E c \in {CountedRules(content)} :
            /\ c >= 3 => awards[2] = 10 /\ checks[2].passed
            /\ (0 < c /\ c < 3) =>
                  /\ awards[2] = 3 * c
                  /\ awards[2] < 10
                  /\ ~checks[2].passed
            /\ c <= 0 => awards[2] = 0 /\ ~checks[2].passed
            /\ TwoActiveOneCommented(content) => c = 2 /\ awards[2] = 6
            /\ points = awards[1] + awards[2] + awards[3]

\* C12 witness: two active blocks and one '# ingress {' line were graded
\* and the counted check gave 6 points and a failing item.
TwoOfThreeRulesReached ==
    /\ pc = "returned"
    /\ filename = "security.tf"
    /\ content # None
    /\ TwoActiveOneCommented(content)
    /\ awards[2] = 6
    /\ ~checks[2].passed

\* `points += ingress_count * 3`: what one rule is worth below the threshold
PointsPerRule == 3

\* `if ingress_count >= 3`: the rules the full award asks for
RequiredRules == 3

\* C13: the per-rule partial value times the required threshold is the full
\* award: with as many rules as the threshold asks for, the counted check
\* awards what the partial formula gives at that count.
PartialAtThresholdIsFull ==
    (/\ pc = "returned" /\ filename = "security.tf" /\ content # None
     /\ CountedRules(content) = RequiredRules) =>
        awards[2] = PointsPerRule * RequiredRules

\* C13, amended: the per-rule partial value times the required threshold
\* is one point short of the full award: below the threshold the check
\* fails and awards the per-rule value for each rule, and from the
\* threshold on it passes and awards one point more than the partial
\* formula gives at the threshold.
PartialAtThresholdBelowFull ==
    (pc = "returned" /\ filename = "security.tf" /\ content # None) =>
        \E c \in {CountedRules(content)} :
            /\ c < RequiredRules =>
                  /\ awards[2] = PointsPerRule * c
                  /\ awards[2] < PointsPerRule * RequiredRules
                  /\ ~checks[2].passed
            /\ c >= RequiredRules =>
                  /\ awards[2] = PointsPerRule * RequiredRules + 1
                  /\ awards[2] = SubChecks("security.tf")[2].weight
                  /\ checks[2].passed

\* C13 witness: a text with exactly as many rules as the threshold asks for
\* was graded, and the counted check passed with the full award.
ThresholdRulesReached ==
    /\ pc = "returned"
    /\ filename = "security.tf"
    /\ content # None
    /\ CountedRules(content) = RequiredRules
    /\ checks[2].passed
    /\ awards[2] = 10

(***************************************************************************)
(* The summary of a run.                                                   *)
(***************************************************************************)
\* check_all_files went through its six files and printed its summary.
SummaryPrinted == GradingOver /\ exception = ""

\* round(100 * e / p) in exact arithmetic, a tie going to the even number
RoundedPercent(e, p) ==
    LET q == (100 * e) \div p
        r == (100 * e) % p
    IN IF 2 * r > p \/ (2 * r = p /\ q % 2 = 1) THEN q + 1 ELSE q

\* C14: at the end of check_all_files the displayed percent is
\* round(100 * total_earned / total_possible) of the totals reached; out of
\* 100 points possible the percent is the total earned itself.
PercentIsRounded ==
    SummaryPrinted =>
        /\ max_total > 0
        /\ progress_pct = RoundedPercent(total_points, max_total)
        /\ max_total = 100 => progress_pct = total_points

\* The three classifications, as the run words them.
Classifications ==
    [complete |-> "All Terraform files complete!",
     near |-> "Almost there! Check the items marked with X",
     progress |-> "Keep going! See README.md for guidance."]

\* The classification that goes with a percent.
ClassOf(pct) ==
    IF pct = 100 THEN Classifications.complete
    ELSE IF 80 <= pct /\ pct < 100 THEN Classifications.near
    ELSE Classifications.progress

\* C15: the classification check_all_files prints is one of three and
\* follows from the percent alone: "complete" iff percent = 100,
\* "near-complete" iff 80 <= percent < 100, "in progress" iff percent < 80.
ClassifiedByPercent ==
    /\ SummaryPrinted =>
          /\ remark \in {Classifications.complete, Classifications.near,
                          Classifications.progress}
          /\ remark = Classifications.complete <=> progress_pct = 100
          /\ remark = Classifications.near <=>
                (80 <= progress_pct /\ progress_pct < 100)
          /\ remark = Classifications.progress <=> progress_pct < 80
    /\ \A pct \in 0..100 : Remark(pct) = ClassOf(pct)

\* C15 witness: a run ended with a percent from 80 to 99 and the
\* near-complete remark, another percent would have got another remark.
NearCompleteClassReached ==
    /\ SummaryPrinted
    /\ 80 <= progress_pct /\ progress_pct < 100
    /\ remark = Classifications.near

\* The cells of the progress bar
BarCells == 20

\* C16: the progress bar always has exactly 20 cells: floor(percent / 5)
\* filled ones, 20 less the filled ones empty, and from 0 to 20 filled.
BarHasTwentyCells ==
    SummaryPrinted =>
        /\ bar_filled = progress_pct \div 5
        /\ bar_empty = BarCells - bar_filled
        /\ bar_filled + bar_empty = BarCells
        /\ 0 <= bar_filled /\ bar_filled <= BarCells
        /\ 0 <= bar_empty

\* C16 witness: a run ended on a percent that is no multiple of 5, with
\* the bar partly filled.
PartBarReached ==
    /\ SummaryPrinted
    /\ progress_pct % 5 >= 3
    /\ 0 < bar_filled /\ bar_filled < BarCells
    /\ bar_filled = progress_pct \div 5

\* C17: the status glyph of a file is the complete one iff the file's
\* points_earned equal its points_possible, whatever the other files
\* earned, the total or the percent thresholds.
GlyphByOwnPoints ==
    \A k \in 1..Len(printed) :
        /\ printed[k].status_icon \in {"complete", "in progress"}
        /\ printed[k].status_icon = "complete" <=>
              printed[k].points = printed[k].max_points

\* C17 witness: a run classified "in progress" as a whole, below 80
\* percent, printed a complete glyph for one file and an in-progress glyph
\* for a file that earned 80 percent of its points.
MixedGlyphsReached ==
    /\ SummaryPrinted
    /\ progress_pct < 80
    /\ \E k \in 1..Len(printed) :
          /\ printed[k].status_icon = "complete"
          /\ printed[k].points = printed[k].max_points
    /\ \E k \in 1..Len(printed) :
          /\ printed[k].status_icon = "in progress"
          /\ 5 * printed[k].points = 4 * printed[k].max_points

\* The sum of the points of the first n sections printed.
RECURSIVE PrintedPoints(_, _)
PrintedPoints(sections, n) ==
    IF n = 0 THEN 0 ELSE PrintedPoints(sections, n - 1) + sections[n].points

\* C20: whatever files are present or absent and whatever they hold, each
\* file's points_possible is its fixed constant (10, 20, 20, 25, 15, 10),
\* total_possible is exactly 100 at the end of the run, and total_earned is
\* the sum of the six points_earned.
FixedPossibleAndSummedEarned ==
    /\ \A k \in 1..Len(printed) :
          printed[k].max_points = PointsPossible(printed[k].filename)
    /\ SummaryPrinted =>
          /\ Len(printed) = 6
          /\ {printed[k].filename : k \in 1..6} = Filenames
          /\ max_total = 100
          /\ total_points = PrintedPoints(printed, 6)

\* C20 witness: a run over absent, empty, half-written and complete files
\* ended with 100 points possible.
MixedRunSummedReached ==
    /\ SummaryPrinted
    /\ max_total = 100
    /\ total_points = PrintedPoints(printed, 6)
    /\ total_points > 0
    /\ \E n \in Filenames : fs[n] = Missing
    /\ \E n \in Filenames : fs[n] = TextFile(<<>>)
    /\ \E n \in Filenames : fs[n] = TextFile(InProgress(n))
    /\ \E n \in Filenames : fs[n] = TextFile(Complete(n))

(***************************************************************************)
(* Two runs.                                                               *)
(***************************************************************************)
\* A run that follows an earlier one has come to its end.
SecondRunOver == earlier # NoReport /\ pc \in {"returned", "exit"}

\* C18: two consecutive runs over the same six files produce the same
\* sections (items, points, points possible), totals, percent, bar and
\* classification; while the second run goes through the files, what it
\* has printed and added up is what the first had at that point.
SecondRunSameReport ==
    /\ SecondRunOver => Report = earlier
    /\ (earlier # NoReport /\ pc = "loop") =>
          /\ Len(printed) = i - 1
          /\ printed = SubSeq(earlier.printed, 1, i - 1)
          /\ total_points = PrintedPoints(earlier.printed, i - 1)

\* C18 witness: a second run over files that earn points has ended with the
\* report of the first.
SecondRunReached ==
    /\ SecondRunOver
    /\ edited = ""
    /\ earlier.total_points > 0
    /\ Len(earlier.printed) = 6
    /\ Report = earlier

\* The place of a file in the loop of check_all_files.
RowOf(name) == CHOOSE k \in 1..Len(file_checks) : file_checks[k].filename = name

\* C19: each file is graded independently: after one file has been given
\* another content or removed, the next run prints the same items, points
\* and points possible as before for each of the other five files, and
\* its total differs from the earlier one by exactly the change in that
\* one file's points.
OtherFilesUnchanged ==
    (SecondRunOver /\ edited # "") =>
        /\ Len(printed) = 6 /\ Len(earlier.printed) = 6
        /\ \A k \in 1..6 :
              k # RowOf(edited) =>
                 /\ printed[k].checks = earlier.printed[k].checks
                 /\ printed[k].points = earlier.printed[k].points
                 /\ printed[k].max_points = earlier.printed[k].max_points
                 /\ printed[k] = earlier.printed[k]
        /\ printed[RowOf(edited)].filename = edited
        /\ total_points - earlier.total_points =
              printed[RowOf(edited)].points
                  - earlier.printed[RowOf(edited)].points

\* C19 witness: security.tf, in the middle of the loop, was removed after a
\* run in which it had earned points; the next run gave it nothing and
\* gave the files graded after it what they had earned before.
FileRemovedReached ==
    /\ SecondRunOver
    /\ edited = "security.tf"
    /\ fs[edited] = Missing
    /\ earlier.printed[RowOf(edited)].points > 0
    /\ printed[RowOf(edited)].points = 0
    /\ \E k \in (RowOf(edited) + 1)..6 :
          printed[k].points > 0 /\ printed[k] = earlier.printed[k]
    /\ total_points < earlier.total_points

(***************************************************************************)
(* The course of a run.                                                    *)
(***************************************************************************)
\* The order the six files are processed in.
FixedOrder ==
    <<"main.tf", "vpc.tf", "security.tf", "ec2.tf", "variables.tf", "outputs.tf">>

\* The score summary has been emitted.
SummaryEmitted == result # "none"

\* The sections printed so far are those of the first files of the fixed
\* order, each once, and the summary comes after the sixth only.
SectionsInOrder ==
    /\ Len(printed) <= Len(FixedOrder)
    /\ \A k \in 1..Len(printed) : printed[k].filename = FixedOrder[k]
    /\ SummaryEmitted => Len(printed) = Len(FixedOrder)

\* C21: every run over existing and non-existing files processes the six
\* files once each in the order main.tf, vpc.tf, security.tf, ec2.tf,
\* variables.tf, outputs.tf, emits the score summary after the sixth only,
\* and has emitted it when it ends: no run ends on a part of the report.
RunReachesSummary ==
    ~validate =>
        /\ SectionsInOrder
        /\ pc = "exit" => (SummaryEmitted /\ Len(printed) = Len(FixedOrder))

\* The steps a run has before it at most: it ends, as each step takes one.
StepsLeft ==
    CASE pc = "main" -> 10
      [] pc = "loop" -> 9 - i
      [] pc = "terraform" -> 2
      [] pc = "returned" -> 1
      [] pc = "exit" -> 0

\* A run that has not exited has a step to take: main() to enter, a file
\* to load and grade, the summary to print, or the return to the caller.
HasStep ==
    \/ pc = "main"
    \/ /\ pc = "loop"
       /\ i \in 1..Len(file_checks)
       /\ load_tf_content(fs[file_checks[i].filename]) # {}
    \/ pc = "loop" /\ i = Len(file_checks) + 1
    \/ pc = "returned"
    \/ pc = "exit" /\ exit_status \in {0, 1}

\* C22: the invocation without --validate runs the grading pass and
\* terminates, and whatever the score and the value check_all_files
\* returned, the exit status is the success status.
ScoreNeverGatesExit ==
    /\ [](~validate => HasStep)
    /\ [][~validate => StepsLeft' < StepsLeft]_vars
    /\ []((~validate /\ SummaryEmitted) => exit_status \in {-1, 0})
    /\ []((~validate /\ SummaryEmitted /\ pc = "exit") => exit_status = 0)

\* C22 witness: a run that earned points but not all of them, so that
\* check_all_files returned False, has exited with status 0.
LowScoreExitReached ==
    /\ ~validate
    /\ pc = "exit"
    /\ result = "False"
    /\ 0 < progress_pct /\ progress_pct < 80
    /\ exit_status = 0

(***************************************************************************)
(* The items of a present file.                                            *)
(***************************************************************************)
\* The provider name occurs somewhere in the text, on whatever line.
NamesProvider(s) == \E k \in 1..Len(s) : s[k] = "aws"

\* C23: in check_main_tf the 'AWS provider defined' sub-check awards its 3
\* points iff 'required_providers' occurs on a line neither blank nor a
\* comment and 'aws' occurs anywhere in the text, comment lines included.
ProviderCheckNeedsNameAnywhere ==
    (pc = "returned" /\ filename = "main.tf" /\ content # None) =>
        /\ checks[2].name = "AWS provider defined"
        /\ awards[2] \in {0, 3}
        /\ awards[2] = 3 <=>
              (OnActiveLine(content, REQUIRED_PROVIDERS) /\ NamesProvider(content))
        /\ checks[2].passed <=> awards[2] = 3

\* C23 witness: required_providers is declared on an active line, 'aws'
\* stands on a comment line only, and the sub-check has awarded 3 points.
ProviderNameCommentedReached ==
    /\ pc = "returned"
    /\ filename = "main.tf"
    /\ content # None
    /\ OnActiveLine(content, REQUIRED_PROVIDERS)
    /\ OnInertLine(content, AWS)
    /\ ~OnActiveLine(content, AWS)
    /\ awards[2] = 3
    /\ checks[2].passed

\* The items of each checker, by name, in the order of evaluation.
ItemNames(name) ==
    CASE name = "main.tf" ->
           <<"Terraform block", "AWS provider defined", "Provider configured",
             "Default tags">>
      [] name = "vpc.tf" ->
           <<"VPC resource", "Subnet resource", "Internet gateway", "Route table",
             "Route association">>
      [] name = "security.tf" ->
           <<"Security group", "Ingress rules", "Egress rule">>
      [] name = "ec2.tf" ->
           <<"AMI data source", "EC2 instance", "User data", "Security group ref">>
      [] name = "variables.tf" ->
           <<"var.aws_region", "var.project_name", "var.vpc_cidr",
             "var.instance_type", "var.allowed_ssh_cidr">>
      [] name = "outputs.tf" ->
           <<"output.vpc_id", "output.instance_id", "output.instance_public_ip",
             "output.website_url">>

\* The number of items of each checker.
ItemCount(name) ==
    CASE name = "main.tf" -> 4
      [] name = "vpc.tf" -> 5
      [] name = "security.tf" -> 3
      [] name = "ec2.tf" -> 4
      [] name = "variables.tf" -> 5
      [] name = "outputs.tf" -> 4

\* C24: for a present file, whatever its text, each checker returns one
\* item per sub-check in the order of evaluation, passing or not: 4 for
\* main.tf, 5 for vpc.tf, 3 for security.tf, 4 for ec2.tf, 5 for
\* variables.tf, 4 for outputs.tf; for a present but empty file every item
\* fails and no point is earned, of the same points possible as for an
\* absent file, whose one item is the existence item.
OneItemPerSubCheck ==
    (pc = "returned" /\ content # None) =>
        /\ Len(checks) = ItemCount(filename)
        /\ Len(ItemNames(filename)) = ItemCount(filename)
        /\ \A k \in 1..Len(checks) : checks[k].name = ItemNames(filename)[k]
        /\ content = <<>> =>
              /\ \A k \in 1..Len(checks) : ~checks[k].passed
              /\ points = 0
              /\ max_points = PointsPossible(filename)
              /\ max_points = check_func(filename, None).max_points
              /\ points = check_func(filename, None).points
              /\ checks # check_func(filename, None).checks

\* C24 witness: a checker has graded a text in which its second sub-check
\* passes and the first fails, and returned all its items in order.
ItemsOfMixedTextReached ==
    /\ pc = "returned"
    /\ content # None
    /\ content # <<>>
    /\ Len(checks) = ItemCount(filename)
    /\ ~checks[1].passed
    /\ checks[2].passed
    /\ checks[2].name = ItemNames(filename)[2]

\* C25: for every present file the points earned are the points possible
\* if and only if every item returned for the file is passing, so that the
\* complete glyph is shown exactly when no item of the file is failing.
FullPointsIffAllPassing ==
    (pc = "returned" /\ content # None) =>
        /\ points = max_points <=> AllPassed(checks)
        /\ StatusIcon(points, max_points) = "complete" <=> AllPassed(checks)

(***************************************************************************)
(* A text and the text with one more line.                                 *)
(***************************************************************************)
\* What the checker had returned for the text before the line was appended.
Before == earlier.printed[1]

\* C26: grading is monotone under appending a line: for each of the six
\* checkers and any text, the text with one further line, comment or not,
\* earns no fewer points than the text, and every item that passed for the
\* text passes for the longer text.
AppendingNeverLowers ==
    (pc = "returned" /\ earlier # NoReport /\ edited # "") =>
        /\ points >= Before.points
        /\ Len(checks) = Len(Before.checks)
        /\ \A k \in 1..Len(checks) :
              /\ checks[k].name = Before.checks[k].name
              /\ Before.checks[k].passed => checks[k].passed
              /\ awards[k] >= Before.awards[k]

\* C26 witness: to a security.tf text whose two rules had earned 6 points
\* a comment line with a commented rule was appended, and the longer text
\* has earned the same 6 points.
CommentLineAppendedReached ==
    /\ pc = "returned"
    /\ earlier # NoReport
    /\ edited = "security.tf"
    /\ Before.awards[2] = 6
    /\ \E k \in 1..Len(content) : content[k] = NL
    /\ OnInertLine(content, COMMENTED_INGRESS)
    /\ Cardinality(ActiveOccurrences(content, INGRESS)) = 2
    /\ awards[2] = 6
    /\ points = Before.points
=============================================================================
